---- MODULE Spec2Model ----
(***************************************************************************)
(* Model of the Goal Ball game server (src/public/client.js, lines         *)
(* 1271-1560): the authoritative state (players, balls, nextTeamIndex),     *)
(* the connection, message and close handlers, and the update() tick.       *)
(*                                                                         *)
(* Numbers.  JavaScript numbers are modelled in fixed point: a coordinate   *)
(* or a direction component v is held as the integer v * SCALE (tenths).    *)
(* Square roots and quotients are computed with PREC further digits and     *)
(* truncated.  The value NaN is a sentinel that every arithmetic operator  *)
(* propagates and every comparison rejects, as IEEE arithmetic does.        *)
(*                                                                         *)
(* Identities.  uuidv4() is modelled by a counter (uuidCount): every call   *)
(* returns a value never returned before.  null is the sentinel NULL.                    *)
(*                                                                         *)
(* Maps.  A JavaScript Map iterates in insertion order, so players and      *)
(* balls are sequences; delete removes an element, set of a new key         *)
(* appends.                                                                 *)
(***************************************************************************)
EXTENDS Integers, Sequences, FiniteSets, TLC

VARIABLES
    players,        \* Map id -> player record, in insertion order
    balls,          \* Map id -> ball record, in insertion order
    nextTeamIndex,  \* rotate teams on join
    uuidCount,      \* number of uuidv4() values handed out so far
    snapshot,       \* the payload of the last broadcastState()
    ticks,          \* number of update() calls so far
    sockets,        \* the WebSocket of every connection accepted so far
    phase           \* where update() stands in its body; "idle" outside update()

vars == <<players, balls, nextTeamIndex, uuidCount, snapshot, ticks, sockets, phase>>

----------------------------------------------------------------------------
(* Configuration constants *)

WORLD_WIDTH == 800
WORLD_HEIGHT == 600
PLAYER_SPEED == 3
BALL_RADIUS == 3
PLAYER_RADIUS == 5
BALL_COUNT == 5
GOAL_WIDTH == 60
GOAL_DEPTH == 20

TEAMS == <<"left", "right">>

(* Fixed-point representation of JavaScript numbers *)
SCALE == 10
PREC == 100
NaN == 1000000000
NULL == 2000000000
EPS_INV == 10000

----------------------------------------------------------------------------
(* Bounds of the model *)

MaxConn == 3       \* connections accepted over a run of Spec
MaxTicks == 2      \* update() calls over a run of Spec
MaxTicksGoal == 8  \* update() calls over a run of SpecGoal
MaxTicksSolo == 17 \* update() calls over a run of SpecSolo
MaxTicksInput == 2 \* update() calls over a run of SpecInput
MaxConnWall == 3   \* connections accepted over a run of SpecWall
MaxTicksWall == 11 \* update() calls over a run of SpecWall
MaxConnCrowd == 5  \* connections accepted over a run of SpecCrowd
MaxTicksCrowd == 2 \* update() calls over a run of SpecCrowd
MaxTicksClamp == 1 \* update() calls over a run of SpecClamp
MaxConnSession == 3  \* connections accepted over a run of SpecSession
MaxTicksSession == 2 \* update() calls over a run of SpecSession
MaxTicksRun == 253   \* update() calls over a run of SpecRun
MaxTicksFair == 9    \* update() calls over a run of SpecFair
MaxConnSteps == 2    \* connections accepted over a run of SpecSteps
MaxTicksSteps == 2   \* update() calls over a run of SpecSteps

----------------------------------------------------------------------------
(* IEEE-style arithmetic on fixed-point values *)

IsNaN(a) == a = NaN

Add(a, b) == IF IsNaN(a) \/ IsNaN(b) THEN NaN ELSE a + b

Sub(a, b) == IF IsNaN(a) \/ IsNaN(b) THEN NaN ELSE a - b

Mul(a, b) == IF IsNaN(a) \/ IsNaN(b) THEN NaN ELSE a * b

\* a < b; false when either side is NaN
Lt(a, b) == ~IsNaN(a) /\ ~IsNaN(b) /\ a < b

\* a > b; false when either side is NaN
Gt(a, b) == ~IsNaN(a) /\ ~IsNaN(b) /\ a > b

MathMax(a, b) == IF IsNaN(a) \/ IsNaN(b) THEN NaN ELSE IF a > b THEN a ELSE b

MathMin(a, b) == IF IsNaN(a) \/ IsNaN(b) THEN NaN ELSE IF a < b THEN a ELSE b

MathAbs(a) == IF IsNaN(a) THEN NaN ELSE IF a < 0 THEN -a ELSE a

\* a / b for b > 0, truncated toward zero
Quot(a, b) == IF a >= 0 THEN a \div b ELSE -((-a) \div b)

RECURSIVE SqrtSearch(_, _, _)
SqrtSearch(n, lo, hi) ==
    IF lo >= hi THEN lo
    ELSE LET mid == (lo + hi + 1) \div 2
         IN  IF mid * mid <= n THEN SqrtSearch(n, mid, hi)
             ELSE SqrtSearch(n, lo, mid - 1)

\* Math.sqrt of v (a product of two fixed-point values, v >= 0), with PREC
\* further digits: the result r stands for r / (SCALE * PREC)
MathSqrt(v) == IF IsNaN(v) THEN NaN ELSE SqrtSearch(v * PREC * PREC, 0, 20000)

----------------------------------------------------------------------------
(* Entities *)

\* createBall(): pos is the value randInField() returned, id a fresh uuid
createBall(id, pos) == [id |-> id, x |-> pos[1], y |-> pos[2], carriedBy |-> NULL]

\* createPlayer(id, team)
createPlayer(id, team) ==
    LET spawnX == IF team = "left" THEN -(WORLD_WIDTH * SCALE) \div 2 + 40 * SCALE
                  ELSE (WORLD_WIDTH * SCALE) \div 2 - 40 * SCALE
        spawnY == 0
    IN  [id |-> id, team |-> team, x |-> spawnX, y |-> spawnY,
         dirX |-> 0, dirY |-> 0, score |-> 0, carryingBallId |-> NULL]

\* isInGoal with the goal of a team at the other team's edge
isInGoal_TeamsSwapped(team, x, y) ==
    IF team = "left"
    THEN /\ Gt(x, (WORLD_WIDTH * SCALE) \div 2 - GOAL_DEPTH * SCALE)
         /\ Lt(MathAbs(y), (GOAL_WIDTH * SCALE) \div 2)
    ELSE /\ Lt(x, -(WORLD_WIDTH * SCALE) \div 2 + GOAL_DEPTH * SCALE)
         /\ Lt(MathAbs(y), (GOAL_WIDTH * SCALE) \div 2)

\* isInGoal without the test of y
isInGoal_AnyY(team, x, y) ==
    IF team = "left"
    THEN Lt(x, -(WORLD_WIDTH * SCALE) \div 2 + GOAL_DEPTH * SCALE)
    ELSE Gt(x, (WORLD_WIDTH * SCALE) \div 2 - GOAL_DEPTH * SCALE)

\* isInGoal(team, x, y)
isInGoal(team, x, y) ==
    IF team = "left"
    THEN /\ Lt(x, -(WORLD_WIDTH * SCALE) \div 2 + GOAL_DEPTH * SCALE)
         /\ Lt(MathAbs(y), (GOAL_WIDTH * SCALE) \div 2)
    ELSE /\ Gt(x, (WORLD_WIDTH * SCALE) \div 2 - GOAL_DEPTH * SCALE)
         /\ Lt(MathAbs(y), (GOAL_WIDTH * SCALE) \div 2)

\* dist2(x1, y1, x2, y2)
dist2(x1, y1, x2, y2) ==
    LET dx == Sub(x1, x2)
        dy == Sub(y1, y2)
    IN  Add(Mul(dx, dx), Mul(dy, dy))

\* Map helpers: index of the entry with key id (0 when absent)
IndexOf(seq, id) ==
    IF \E k \in 1..Len(seq) : seq[k].id = id
    THEN CHOOSE k \in 1..Len(seq) : seq[k].id = id
    ELSE 0

\* Map.delete(id)
MapDelete(seq, id) == SelectSeq(seq, LAMBDA e : e.id # id)

Ids(seq) == {seq[k].id : k \in 1..Len(seq)}

----------------------------------------------------------------------------
(* update(): the simulation state threaded through its loops is the record *)
(* [players, balls, uuid]                                                  *)

\* MovePlayer without the upper limits of the clamp
MovePlayer_NoUpperLimit(p) ==
    IF p.dirX # 0 \/ p.dirY # 0
    THEN LET mag == MathSqrt(Add(Mul(p.dirX, p.dirX), Mul(p.dirY, p.dirY)))
             stepX == IF IsNaN(mag) THEN NaN
                      ELSE Quot(p.dirX * PLAYER_SPEED * SCALE * PREC, mag)
             stepY == IF IsNaN(mag) THEN NaN
                      ELSE Quot(p.dirY * PLAYER_SPEED * SCALE * PREC, mag)
         IN  [p EXCEPT !.x = MathMax(-(WORLD_WIDTH * SCALE) \div 2 + PLAYER_RADIUS * SCALE,
                                     Add(p.x, stepX)),
                       !.y = MathMax(-(WORLD_HEIGHT * SCALE) \div 2 + PLAYER_RADIUS * SCALE,
                                     Add(p.y, stepY))]
    ELSE p

\* Move players: lines 1379-1390
MovePlayer(p) ==
    IF p.dirX # 0 \/ p.dirY # 0
    THEN LET mag == MathSqrt(Add(Mul(p.dirX, p.dirX), Mul(p.dirY, p.dirY)))
             stepX == IF IsNaN(mag) THEN NaN
                      ELSE Quot(p.dirX * PLAYER_SPEED * SCALE * PREC, mag)
             stepY == IF IsNaN(mag) THEN NaN
                      ELSE Quot(p.dirY * PLAYER_SPEED * SCALE * PREC, mag)
             minX == -(WORLD_WIDTH * SCALE) \div 2 + PLAYER_RADIUS * SCALE
             maxX == (WORLD_WIDTH * SCALE) \div 2 - PLAYER_RADIUS * SCALE
             minY == -(WORLD_HEIGHT * SCALE) \div 2 + PLAYER_RADIUS * SCALE
             maxY == (WORLD_HEIGHT * SCALE) \div 2 - PLAYER_RADIUS * SCALE
         IN  [p EXCEPT !.x = MathMax(minX, MathMin(maxX, Add(p.x, stepX))),
                       !.y = MathMax(minY, MathMin(maxY, Add(p.y, stepY)))]
    ELSE p

\* FollowBall that copies only x
FollowBall_XOnly(st, i) ==
    LET p == st.players[i]
        k == IndexOf(st.balls, p.carryingBallId)
    IN  IF p.carryingBallId # NULL /\ k # 0
        THEN [st EXCEPT !.balls[k].x = p.x]
        ELSE st

\* If carrying a ball, update ball position to follow: lines 1393-1399
FollowBall(st, i) ==
    LET p == st.players[i]
        k == IndexOf(st.balls, p.carryingBallId)
    IN  IF p.carryingBallId # NULL /\ k # 0
        THEN [st EXCEPT !.balls[k].x = p.x, !.balls[k].y = p.y]
        ELSE st

\* The scoring condition of line 1402
Scores(p) == p.carryingBallId # NULL /\ isInGoal(p.team, p.x, p.y)

\* ScoreGoal without the replacement ball
ScoreGoal_NoReplacement(st, i, pos) ==
    LET p == st.players[i]
    IN  IF p.carryingBallId # NULL /\ isInGoal(p.team, p.x, p.y)
        THEN [st EXCEPT !.players[i].score = p.score + 1,
                        !.players[i].carryingBallId = NULL,
                        !.balls = MapDelete(st.balls, p.carryingBallId)]
        ELSE st

\* ScoreGoal with the player's carry left as it was
ScoreGoal_KeepsCarry(st, i, pos) ==
    LET p == st.players[i]
    IN  IF p.carryingBallId # NULL /\ isInGoal(p.team, p.x, p.y)
        THEN [st EXCEPT !.players[i].score = p.score + 1,
                        !.balls = Append(MapDelete(st.balls, p.carryingBallId),
                                         createBall(st.uuid + 1, pos)),
                        !.uuid = st.uuid + 1]
        ELSE st

\* Check for scoring: lines 1402-1414; pos is what randInField() returns
ScoreGoal(st, i, pos) ==
    LET p == st.players[i]
        scoredBallId == p.carryingBallId
        scored == [st EXCEPT !.players[i].score = p.score + 1,
                             !.players[i].carryingBallId = NULL]
    IN  IF Scores(p)
        THEN IF IndexOf(st.balls, scoredBallId) # 0
             THEN [scored EXCEPT
                     !.balls = Append(MapDelete(st.balls, scoredBallId),
                                      createBall(st.uuid + 1, pos)),
                     !.uuid = st.uuid + 1]
             ELSE scored
        ELSE st

\* Movement and follow of player i: lines 1379-1399
MoveFollow(st, i) == FollowBall([st EXCEPT !.players[i] = MovePlayer(st.players[i])], i)

\* MoveFollowScore with the scoring test before the movement
MoveFollowScore_ScoresFirst(st, i, pos) == MoveFollow(ScoreGoal(st, i, pos), i)

\* One iteration of the first loop of update(): lines 1378-1415
MoveFollowScore(st, i, pos) == ScoreGoal(MoveFollow(st, i), i, pos)

\* The first loop of update() for players i..n; rs[i] is the position
\* randInField() returns if player i scores (only a carrier can score)
RECURSIVE MoveLoop(_, _, _, _)
MoveLoop(st, i, n, rs) ==
    IF i > n THEN st
    ELSE MoveLoop(MoveFollowScore(st, i, IF i \in DOMAIN rs THEN rs[i] ELSE <<0, 0>>),
                  i + 1, n, rs)

\* InPickupRange with <= for <
InPickupRange_Inclusive(p, ball) ==
    ~Gt(dist2(p.x, p.y, ball.x, ball.y),
        ((PLAYER_RADIUS + BALL_RADIUS) * SCALE) * ((PLAYER_RADIUS + BALL_RADIUS) * SCALE))

\* The balls player p may pick up: line 1421-1424
InPickupRange(p, ball) ==
    LET d2 == dist2(p.x, p.y, ball.x, ball.y)
        pickupRange == ((PLAYER_RADIUS + BALL_RADIUS) * SCALE) * ((PLAYER_RADIUS + BALL_RADIUS) * SCALE)
    IN  Lt(d2, pickupRange)

\* PickupPlayer without the test that the ball is free
PickupPlayer_TakesCarried(st, i) ==
    LET p == st.players[i]
        hits == {k \in 1..Len(st.balls) : InPickupRange(p, st.balls[k])}
    IN  IF p.carryingBallId # NULL \/ hits = {} THEN st
        ELSE LET k == CHOOSE h \in hits : \A g \in hits : h <= g
             IN  [st EXCEPT !.players[i].carryingBallId = st.balls[k].id,
                            !.balls[k].carriedBy = p.id]

\* PickupPlayer that also moves the ball to the player
PickupPlayer_SnapsBall(st, i) ==
    LET p == st.players[i]
        hits == {k \in 1..Len(st.balls) :
                    st.balls[k].carriedBy = NULL /\ InPickupRange(p, st.balls[k])}
    IN  IF p.carryingBallId # NULL \/ hits = {} THEN st
        ELSE LET k == CHOOSE h \in hits : \A g \in hits : h <= g
             IN  [st EXCEPT !.players[i].carryingBallId = st.balls[k].id,
                            !.balls[k].carriedBy = p.id,
                            !.balls[k].x = p.x, !.balls[k].y = p.y]

\* The inner loop of the pickup scan for player i: lines 1419-1430
PickupPlayer(st, i) ==
    LET p == st.players[i]
        hits == {k \in 1..Len(st.balls) :
                    st.balls[k].carriedBy = NULL /\ InPickupRange(p, st.balls[k])}
    IN  IF p.carryingBallId # NULL \/ hits = {} THEN st
        ELSE LET k == CHOOSE h \in hits : \A g \in hits : h <= g
             IN  [st EXCEPT !.players[i].carryingBallId = st.balls[k].id,
                            !.balls[k].carriedBy = p.id]

\* The pickup scan, from player i on: lines 1418-1431
RECURSIVE PickupLoop(_, _)
PickupLoop(st, i) ==
    IF i > Len(st.players) THEN st
    ELSE PickupLoop(PickupPlayer(st, i), i + 1)

\* DropBall with the ball's side of the carry left as it was
DropBall_PlayerSideOnly(st, i) ==
    IF st.players[i].carryingBallId # NULL
    THEN [st EXCEPT !.players[i].carryingBallId = NULL]
    ELSE st

\* Drop balls: lines 1456-1462 (and 1463-1469)
DropBall(st, i) ==
    LET p == st.players[i]
        k == IndexOf(st.balls, p.carryingBallId)
    IN  IF p.carryingBallId # NULL
        THEN IF k # 0
             THEN [st EXCEPT !.balls[k].carriedBy = NULL,
                             !.players[i].carryingBallId = NULL]
             ELSE [st EXCEPT !.players[i].carryingBallId = NULL]
        ELSE st

\* The test of line 1441
Collides(p1, p2) ==
    Lt(dist2(p1.x, p1.y, p2.x, p2.y),
       (PLAYER_RADIUS * 2 * SCALE) * (PLAYER_RADIUS * 2 * SCALE))

\* nx * overlap of lines 1446-1453, for the component d of the separation
\* vector; mag = 0 stands for the fallback 0.0001 of line 1446
Push(d, mag, overlap) ==
    IF mag = 0 THEN Quot(d * EPS_INV * overlap, SCALE * PREC)
    ELSE Quot(d * overlap, mag)

\* CollidePair in which only the first player of the pair drops its ball
CollidePair_FirstDropsOnly(st, i, j) ==
    LET p1 == st.players[i]
        p2 == st.players[j]
        dx == p1.x - p2.x
        dy == p1.y - p2.y
        mag == MathSqrt(dx * dx + dy * dy)
        overlap == MathSqrt((PLAYER_RADIUS * 2 * SCALE) * (PLAYER_RADIUS * 2 * SCALE)
                            - dist2(p1.x, p1.y, p2.x, p2.y)) \div 2
        moved == [st EXCEPT !.players[i].x = p1.x + Push(dx, mag, overlap),
                            !.players[i].y = p1.y + Push(dy, mag, overlap),
                            !.players[j].x = p2.x - Push(dx, mag, overlap),
                            !.players[j].y = p2.y - Push(dy, mag, overlap)]
    IN  IF Collides(p1, p2) THEN DropBall(moved, i) ELSE st

\* The body of the pair loop for players i < j: lines 1438-1470
CollidePair(st, i, j) ==
    LET p1 == st.players[i]
        p2 == st.players[j]
        d2 == dist2(p1.x, p1.y, p2.x, p2.y)
        collisionDist2 == (PLAYER_RADIUS * 2 * SCALE) * (PLAYER_RADIUS * 2 * SCALE)
        dx == p1.x - p2.x
        dy == p1.y - p2.y
        mag == MathSqrt(dx * dx + dy * dy)
        overlap == MathSqrt(collisionDist2 - d2) \div 2
        moved == [st EXCEPT !.players[i].x = p1.x + Push(dx, mag, overlap),
                            !.players[i].y = p1.y + Push(dy, mag, overlap),
                            !.players[j].x = p2.x - Push(dx, mag, overlap),
                            !.players[j].y = p2.y - Push(dy, mag, overlap)]
    IN  IF Collides(p1, p2) THEN DropBall(DropBall(moved, i), j) ELSE st

\* The pair loops of lines 1434-1472 from the pair (i, j) on, stopped before
\* the pair (si, sj) is examined; (0, 0) runs the loops to their end
RECURSIVE CollideLoop(_, _, _, _, _)
CollideLoop(st, i, j, si, sj) ==
    IF i > Len(st.players) \/ (i = si /\ j = sj) THEN st
    ELSE IF j > Len(st.players) THEN CollideLoop(st, i + 1, i + 2, si, sj)
    ELSE CollideLoop(CollidePair(st, i, j), i, j + 1, si, sj)

\* JSON.stringify of a number: NaN is written as null
JsonNumber(v) == IF IsNaN(v) THEN NULL ELSE v

\* broadcastState(): the payload built in lines 1482-1504
Payload(st) ==
    [type |-> "state",
     players |-> [k \in 1..Len(st.players) |->
                    [id |-> st.players[k].id, team |-> st.players[k].team,
                     x |-> JsonNumber(st.players[k].x), y |-> JsonNumber(st.players[k].y),
                     score |-> st.players[k].score]],
     balls |-> [k \in 1..Len(st.balls) |->
                    [id |-> st.balls[k].id,
                     x |-> JsonNumber(st.balls[k].x), y |-> JsonNumber(st.balls[k].y),
                     carriedBy |-> st.balls[k].carriedBy]]]

\* The messages sent through a socket, in order; of the state messages only
\* the last one is kept in full, the earlier ones are kept by their type
Abbrev(sent) ==
    [k \in 1..Len(sent) |->
        IF sent[k].type = "state" THEN [type |-> "state"] ELSE sent[k]]

\* ws.send(msg)
WsSend(sock, msg) == [sock EXCEPT !.sent = Append(Abbrev(sock.sent), msg)]

\* Broadcast without the test of readyState
Broadcast_IgnoresReadyState(st, socks) ==
    [k \in 1..Len(socks) |->
        IF socks[k].id \in Ids(st.players) THEN WsSend(socks[k], Payload(st)) ELSE socks[k]]

\* broadcastState(): the fan-out of lines 1505-1509 over the players' sockets
Broadcast(st, socks) ==
    [k \in 1..Len(socks) |->
        IF socks[k].id \in Ids(st.players) /\ socks[k].readyState = "OPEN"
        THEN WsSend(socks[k], Payload(st))
        ELSE socks[k]]

\* The state after the three loops of update()
AfterMove(st, rs) == MoveLoop(st, 1, Len(st.players), rs)

AfterPickup(st, rs) == PickupLoop(AfterMove(st, rs), 1)

AfterCollide(st, rs) == CollideLoop(AfterPickup(st, rs), 1, 2, 0, 0)

Cur == [players |-> players, balls |-> balls, uuid |-> uuidCount]

\* update(), run by setInterval; rs are the values of randInField()
Update(rs) ==
    LET st == AfterCollide(Cur, rs)
    IN  /\ players' = st.players
        /\ balls' = st.balls
        /\ uuidCount' = st.uuid
        /\ snapshot' = Payload(st)
        /\ sockets' = Broadcast(st, sockets)
        /\ ticks' = ticks + 1
        /\ UNCHANGED <<nextTeamIndex, phase>>

\* update() step by step.  The first loop (lines 1378-1415)
UpdateMove(rs) ==
    LET st == AfterMove(Cur, rs)
    IN  /\ players' = st.players
        /\ balls' = st.balls
        /\ uuidCount' = st.uuid
        /\ phase' = "moved"
        /\ UNCHANGED <<nextTeamIndex, snapshot, ticks, sockets>>

\* The pickup scan (lines 1418-1431)
UpdatePickup ==
    LET st == PickupLoop(Cur, 1)
    IN  /\ phase = "moved"
        /\ players' = st.players
        /\ balls' = st.balls
        /\ phase' = "picked"
        /\ UNCHANGED <<nextTeamIndex, uuidCount, snapshot, ticks, sockets>>

\* The collision scan (lines 1434-1472)
UpdateCollide ==
    LET st == CollideLoop(Cur, 1, 2, 0, 0)
    IN  /\ phase = "picked"
        /\ players' = st.players
        /\ balls' = st.balls
        /\ phase' = "collided"
        /\ UNCHANGED <<nextTeamIndex, uuidCount, snapshot, ticks, sockets>>

\* The call of broadcastState() that ends update() (line 1475)
UpdateBroadcast ==
    /\ phase = "collided"
    /\ snapshot' = Payload(Cur)
    /\ sockets' = Broadcast(Cur, sockets)
    /\ ticks' = ticks + 1
    /\ phase' = "idle"
    /\ UNCHANGED <<players, balls, nextTeamIndex, uuidCount>>

\* Yields with an await before broadcastState()
Yields_BeforeBroadcast(ph) == ph = "collided"

\* update() returns to the event loop at position ph of its body.  It is a
\* plain function whose body (lines 1376-1476) has no await, no yield and no
\* callback, and ws.send() does not block: it runs to its end
Yields(ph) == FALSE

\* The event loop takes the next callback (a timer tick, a connection, a
\* message, a close) when no callback is running
Dispatch == phase = "idle" \/ Yields(phase)

----------------------------------------------------------------------------
(* Connection handlers *)

\* Connect that gives the new player the team with fewer players
Connect_BalancesTeams ==
    LET count(t) == Cardinality({k \in 1..Len(players) : players[k].team = t})
        team == IF count(TEAMS[1]) <= count(TEAMS[2]) THEN TEAMS[1] ELSE TEAMS[2]
        id == uuidCount + 1
    IN  /\ nextTeamIndex' = nextTeamIndex + 1
        /\ uuidCount' = uuidCount + 1
        /\ players' = Append(players, createPlayer(id, team))
        /\ sockets' = Append(sockets,
                             WsSend([id |-> id, readyState |-> "OPEN", sent |-> << >>],
                                    [type |-> "init", id |-> id, team |-> team]))
        /\ UNCHANGED <<balls, snapshot, ticks, phase>>

\* Connect that sends the init message to every open socket
Connect_InitToAll ==
    LET team == TEAMS[(nextTeamIndex % Len(TEAMS)) + 1]
        id == uuidCount + 1
        init == [type |-> "init", id |-> id, team |-> team]
        all == Append(sockets, [id |-> id, readyState |-> "OPEN", sent |-> << >>])
    IN  /\ nextTeamIndex' = nextTeamIndex + 1
        /\ uuidCount' = uuidCount + 1
        /\ players' = Append(players, createPlayer(id, team))
        /\ sockets' = [k \in 1..Len(all) |->
                          IF all[k].readyState = "OPEN" THEN WsSend(all[k], init)
                          ELSE all[k]]
        /\ UNCHANGED <<balls, snapshot, ticks, phase>>

\* wss.on('connection'): lines 1519-1528
Connect ==
    LET team == TEAMS[(nextTeamIndex % Len(TEAMS)) + 1]
        id == uuidCount + 1
    IN  /\ nextTeamIndex' = nextTeamIndex + 1
        /\ uuidCount' = uuidCount + 1
        /\ players' = Append(players, createPlayer(id, team))
        /\ sockets' = Append(sockets,
                             WsSend([id |-> id, readyState |-> "OPEN", sent |-> << >>],
                                    [type |-> "init", id |-> id, team |-> team]))
        /\ UNCHANGED <<balls, snapshot, ticks, phase>>

\* Math.max(-1, Math.min(1, v)) applied to a field of the message; a field
\* is [t, v]: a number v, undefined (missing), null or a non-numeric string
ToNumber(f) ==
    CASE f.t = "number" -> f.v
      [] f.t = "undefined" -> NaN
      [] f.t = "null" -> 0
      [] f.t = "string" -> NaN

\* ClampInput without the lower limit
ClampInput_UpperOnly(f) == MathMin(1 * SCALE, ToNumber(f))

ClampInput(f) == MathMax(-1 * SCALE, MathMin(1 * SCALE, ToNumber(f)))

\* OnMessage storing the direction in every player
OnMessage_EveryPlayer(id, m) ==
    /\ players' = IF m.parses /\ m.type = "input" /\ IndexOf(players, id) # 0
                  THEN [k \in 1..Len(players) |->
                          [players[k] EXCEPT !.dirX = ClampInput(m.x),
                                             !.dirY = ClampInput(m.y)]]
                  ELSE players
    /\ UNCHANGED <<balls, nextTeamIndex, uuidCount, snapshot, ticks, sockets, phase>>

\* ws.on('message'): lines 1530-1547.  m.parses is false when JSON.parse
\* (or reading msg.type) throws
OnMessage(id, m) ==
    LET k == IndexOf(players, id)
    IN  /\ players' = IF m.parses /\ m.type = "input" /\ k # 0
                      THEN [players EXCEPT ![k].dirX = ClampInput(m.x),
                                           ![k].dirY = ClampInput(m.y)]
                      ELSE players
        /\ UNCHANGED <<balls, nextTeamIndex, uuidCount, snapshot, ticks, sockets, phase>>

\* OnClose that ends with a call of broadcastState()
OnClose_Broadcasts(id) ==
    LET left == [players |-> MapDelete(players, id), balls |-> balls, uuid |-> uuidCount]
        closed == [sockets EXCEPT ![IndexOf(sockets, id)].readyState = "CLOSED"]
    IN  /\ players' = left.players
        /\ sockets' = Broadcast(left, closed)
        /\ snapshot' = Payload(left)
        /\ UNCHANGED <<balls, nextTeamIndex, uuidCount, ticks, phase>>

\* OnClose that leaves the player in the map
OnClose_KeepsPlayer(id) ==
    /\ sockets' = [sockets EXCEPT ![IndexOf(sockets, id)].readyState = "CLOSED"]
    /\ UNCHANGED <<players, balls, nextTeamIndex, uuidCount, snapshot, ticks, phase>>

\* ws.on('close'): lines 1549-1551
OnClose(id) ==
    /\ players' = MapDelete(players, id)
    /\ sockets' = [sockets EXCEPT ![IndexOf(sockets, id)].readyState = "CLOSED"]
    /\ UNCHANGED <<balls, nextTeamIndex, uuidCount, snapshot, ticks, phase>>

\* The closing handshake of a socket begins (a close frame arrives or is
\* sent): readyState is CLOSING until the 'close' event is emitted
SocketClosing(id) ==
    /\ sockets[IndexOf(sockets, id)].readyState = "OPEN"
    /\ sockets' = [sockets EXCEPT ![IndexOf(sockets, id)].readyState = "CLOSING"]
    /\ UNCHANGED <<players, balls, nextTeamIndex, uuidCount, snapshot, ticks, phase>>

----------------------------------------------------------------------------
(* Environment: what randInField() may return and what clients may send *)

Num(v) == [t |-> "number", v |-> v]
Undefined == [t |-> "undefined", v |-> 0]
JsonNull == [t |-> "null", v |-> 0]
Text == [t |-> "string", v |-> 0]

Input(x, y) == [parses |-> TRUE, type |-> "input", x |-> x, y |-> y]
Other == [parses |-> TRUE, type |-> "other", x |-> Undefined, y |-> Undefined]
Unparsable == [parses |-> FALSE, type |-> "", x |-> Undefined, y |-> Undefined]

GoLeft == Input(Num(-1 * SCALE), Num(0))
GoRight == Input(Num(1 * SCALE), Num(0))
GoDown == Input(Num(0), Num(-1 * SCALE))
Stop == Input(Num(0), Num(0))

\* Positions of the initial balls, as <<x, y>> in fixed point
InitLayouts ==
    { << <<-3680, 0>>, <<-3660, 30>>, <<3660, 0>>, <<-3600, 70>>, <<-3810, -330>> >> }

\* Positions randInField() returns for a replacement ball
Respawns == { <<-3840, 0>>, <<0, 0>> }

Init ==
    /\ players = << >>
    /\ \E layout \in InitLayouts :
          balls = [k \in 1..BALL_COUNT |-> createBall(k, layout[k])]
    /\ nextTeamIndex = 0
    /\ uuidCount = BALL_COUNT
    /\ snapshot = [type |-> "state", players |-> << >>, balls |-> << >>]
    /\ ticks = 0
    /\ sockets = << >>
    /\ phase = "idle"

\* The players that carry a ball: the ones that may score in the next update()
Carriers == {k \in 1..Len(players) : players[k].carryingBallId # NULL}

Tick == \E rs \in [Carriers -> Respawns] : Update(rs)

----------------------------------------------------------------------------
(* Spec: a few clients around the spawn points; they join, steer left,     *)
(* send garbage and leave in any order                                     *)

Messages == { GoLeft, Unparsable }

Next ==
    \/ (nextTeamIndex < MaxConn /\ Connect)
    \/ \E id \in Ids(players), m \in Messages : OnMessage(id, m)
    \/ \E id \in Ids(players) : OnClose(id)
    \/ (ticks < MaxTicks /\ Tick)

Spec == Init /\ [][Next]_vars

----------------------------------------------------------------------------
(* SpecGoal: one client per team, each steering towards its own goal       *)

HomeMessages(team) == { IF team = "left" THEN GoLeft ELSE GoRight, Unparsable }

NextGoal ==
    \/ (nextTeamIndex < Len(TEAMS) /\ Connect)
    \/ \E k \in 1..Len(players) :
          \E m \in HomeMessages(players[k].team) : OnMessage(players[k].id, m)
    \/ \E id \in Ids(players) : OnClose(id)
    \/ (ticks < MaxTicksGoal /\ Tick)

SpecGoal == Init /\ [][NextGoal]_vars

----------------------------------------------------------------------------
(* SpecSolo: a single client moving in both dimensions around its goal     *)

SoloMessages == { GoLeft, GoDown, Unparsable }

NextSolo ==
    \/ (nextTeamIndex = 0 /\ Connect)
    \/ \E id \in Ids(players), m \in SoloMessages : OnMessage(id, m)
    \/ \E id \in Ids(players) : OnClose(id)
    \/ (ticks < MaxTicksSolo /\ Tick)

SpecSolo == Init /\ [][NextSolo]_vars

----------------------------------------------------------------------------
(* SpecInput: one client per team sending well-formed and malformed input  *)

InputMessages ==
    { GoLeft, Input(Undefined, Num(0)), Input(Num(0), Text),
      Input(JsonNull, JsonNull), Other, Unparsable }

NextInput ==
    \/ (nextTeamIndex < Len(TEAMS) /\ Connect)
    \/ \E id \in Ids(players), m \in InputMessages : OnMessage(id, m)
    \/ \E id \in Ids(players) : OnClose(id)
    \/ (ticks < MaxTicksInput /\ Tick)

SpecInput == Init /\ [][NextInput]_vars

----------------------------------------------------------------------------
(* SpecWall: clients that have all joined before the first tick; those of  *)
(* the left team steer left until they reach the field's edge, those of    *)
(* the right team stand still                                              *)

WallMessages(team) == IF team = "left" THEN { GoLeft } ELSE { Unparsable }

NextWall ==
    \/ (nextTeamIndex < MaxConnWall /\ ticks = 0 /\ Connect)
    \/ \E k \in 1..Len(players) :
          \E m \in WallMessages(players[k].team) : OnMessage(players[k].id, m)
    \/ (ticks < MaxTicksWall /\ Tick)

SpecWall == Init /\ [][NextWall]_vars

----------------------------------------------------------------------------
(* SpecCrowd: clients of the left team moving around their spawn point,   *)
(* the clients of the right team standing still                           *)

CrowdMessages(team) == IF team = "left" THEN { GoRight, GoDown } ELSE { Unparsable }

NextCrowd ==
    \/ (nextTeamIndex < MaxConnCrowd /\ Connect)
    \/ \E k \in 1..Len(players) :
          \E m \in CrowdMessages(players[k].team) : OnMessage(players[k].id, m)
    \/ (ticks < MaxTicksCrowd /\ Tick)

SpecCrowd == Init /\ [][NextCrowd]_vars

----------------------------------------------------------------------------
(* SpecClamp: a single client sending numeric input inside and outside     *)
(* [-1, 1]: -3, -1, -0.5, 0, 0.5, 1 and 2 for each component              *)

ClampValues == { -3 * SCALE, -1 * SCALE, -SCALE \div 2, 0, SCALE \div 2, 1 * SCALE, 2 * SCALE }

ClampMessages == { Input(Num(a), Num(b)) : a, b \in ClampValues }

NextClamp ==
    \/ (nextTeamIndex = 0 /\ Connect)
    \/ \E id \in Ids(players), m \in ClampMessages : OnMessage(id, m)
    \/ (ticks < MaxTicksClamp /\ Tick)

SpecClamp == Init /\ [][NextClamp]_vars

----------------------------------------------------------------------------
(* SpecSession: clients that join, send nothing the server can parse,      *)
(* start closing their socket and leave in any order                       *)

NextSession ==
    \/ (nextTeamIndex < MaxConnSession /\ Connect)
    \/ \E id \in Ids(players) : OnMessage(id, Unparsable)
    \/ \E id \in Ids(players) : SocketClosing(id)
    \/ \E id \in Ids(players) : OnClose(id)
    \/ (ticks < MaxTicksSession /\ Tick)

SpecSession == Init /\ [][NextSession]_vars

----------------------------------------------------------------------------
(* SpecRun: a single client that has joined before the first tick and      *)
(* steers right, across the whole field                                    *)

NextRun ==
    \/ (nextTeamIndex = 0 /\ ticks = 0 /\ Connect)
    \/ \E id \in Ids(players) : OnMessage(id, GoRight)
    \/ (ticks < MaxTicksRun /\ Tick)

SpecRun == Init /\ [][NextRun]_vars

----------------------------------------------------------------------------
(* SpecFair: one client per team; each steers towards its own goal, stops  *)
(* or leaves                                                               *)

FairMessages(team) == { IF team = "left" THEN GoLeft ELSE GoRight, Stop }

NextFair ==
    \/ (nextTeamIndex < Len(TEAMS) /\ ticks = 0 /\ Connect)
    \/ \E k \in 1..Len(players) :
          \E m \in FairMessages(players[k].team) : OnMessage(players[k].id, m)
    \/ \E id \in Ids(players) : OnClose(id)
    \/ (ticks < MaxTicksFair /\ Tick)

\* setInterval(update, TICK_RATE), line 1555: the timer keeps firing, so a
\* step that runs update() is taken again and again.  update() has no guard,
\* so the step is enabled whenever the run has ticks left; it is written by
\* its effect on the tick count, the steps of NextFair that raise it being
\* exactly the Tick steps
TimerFires == ticks < MaxTicksFair /\ ticks' = ticks + 1

SpecFair == Init /\ [][NextFair]_vars /\ WF_ticks(TimerFires)

----------------------------------------------------------------------------
(* SpecSteps: update() taken step by step, with the callbacks the event    *)
(* loop may dispatch: connections, inputs, closes, and the timer           *)

NextSteps ==
    \/ (Dispatch /\ nextTeamIndex < MaxConnSteps /\ Connect)
    \/ (Dispatch /\ \E id \in Ids(players) : OnMessage(id, GoLeft))
    \/ (Dispatch /\ \E id \in Ids(players) : OnClose(id))
    \/ (Dispatch /\ ticks < MaxTicksSteps /\ \E rs \in [Carriers -> Respawns] : UpdateMove(rs))
    \/ UpdatePickup
    \/ UpdateCollide
    \/ UpdateBroadcast

SpecSteps == Init /\ [][NextSteps]_vars

----------------------------------------------------------------------------
(* Properties *)

PlayerIdx == 1..Len(players)
BallIdx == 1..Len(balls)

\* The field rectangle inset by the player radius, in fixed point
MinX == -(WORLD_WIDTH * SCALE) \div 2 + PLAYER_RADIUS * SCALE
MaxX == (WORLD_WIDTH * SCALE) \div 2 - PLAYER_RADIUS * SCALE
MinY == -(WORLD_HEIGHT * SCALE) \div 2 + PLAYER_RADIUS * SCALE
MaxY == (WORLD_HEIGHT * SCALE) \div 2 - PLAYER_RADIUS * SCALE

\* C1: in every state between two handlers, for every live ball b and every
\* live player p, b.carriedBy = p.id exactly when p.carryingBallId = b.id; no
\* player carries two balls and no ball is carried by two players.
C1_CarryIsSymmetric ==
    /\ \A i \in PlayerIdx, k \in BallIdx :
          (balls[k].carriedBy = players[i].id) <=> (players[i].carryingBallId = balls[k].id)
    /\ \A i \in PlayerIdx :
          Cardinality({k \in BallIdx : balls[k].carriedBy = players[i].id}) <= 1
    /\ \A i, j \in PlayerIdx :
          (i # j /\ players[i].carryingBallId # NULL)
             => players[i].carryingBallId # players[j].carryingBallId

\* C1 witness: after a tick, two players are alive, one of them carries a ball
\* and the ball names that player
C1_Witness ==
    /\ ticks >= 1
    /\ Len(players) >= 2
    /\ \E i \in PlayerIdx, k \in BallIdx :
          balls[k].carriedBy = players[i].id /\ players[i].carryingBallId = balls[k].id

\* C2: when a player that carries a ball disconnects, the ball's carrier
\* reference is cleared by the end of the next tick: at the end of every tick
\* each ball is uncarried or carried by a player that is still connected.
C2_CarrierClearedByNextTick ==
    [][ticks' = ticks + 1 =>
          \A k \in 1..Len(balls') :
              balls'[k].carriedBy = NULL \/ balls'[k].carriedBy \in Ids(players')]_vars

\* C3: the number of live balls is BALL_COUNT in every reachable state (and
\* the balls are distinct entries of the map).
C3_BallPoolConstant ==
    /\ Len(balls) = BALL_COUNT
    /\ Cardinality(Ids(balls)) = BALL_COUNT

\* C3 witness: two players have scored, so balls were replaced
C3_Witness ==
    /\ \E i, j \in PlayerIdx : i # j /\ players[i].score >= 1 /\ players[j].score >= 1
    /\ uuidCount >= BALL_COUNT + 4

\* C4: in every broadcast snapshot every player's x lies in
\* [-W/2 + r, W/2 - r] and its y in [-H/2 + r, H/2 - r].
C4_SnapshotPlayersInBounds ==
    \A k \in 1..Len(snapshot.players) :
        LET p == snapshot.players[k]
        IN  /\ p.x # NULL /\ MinX <= p.x /\ p.x <= MaxX
            /\ p.y # NULL /\ MinY <= p.y /\ p.y <= MaxY

\* A message whose x or y is missing or not a number, or that cannot be parsed
Malformed(m) == ~m.parses \/ (m.type = "input" /\ (m.x.t # "number" \/ m.y.t # "number"))

\* C5: a malformed input message is dropped: the handler leaves the player's
\* stored direction and all the rest of the simulation state as they were.
C5_MalformedInputDropped ==
    [][\A id \in Ids(players), m \in InputMessages :
          (Malformed(m) /\ OnMessage(id, m)) => UNCHANGED vars]_vars

\* The goal zone of a team as the claims describe it: x within GOAL_DEPTH of
\* the team's edge and |y| < GOAL_WIDTH / 2
InOwnGoalZone(team, x, y) ==
    /\ ~IsNaN(x) /\ ~IsNaN(y)
    /\ IF team = "left"
       THEN 2 * x + WORLD_WIDTH * SCALE < 2 * GOAL_DEPTH * SCALE
       ELSE WORLD_WIDTH * SCALE - 2 * x < 2 * GOAL_DEPTH * SCALE
    /\ 2 * y < GOAL_WIDTH * SCALE /\ -2 * y < GOAL_WIDTH * SCALE

PosOf(rs, i) == IF i \in DOMAIN rs THEN rs[i] ELSE <<0, 0>>

\* C7: when player i scores, the scoring step clears its carried-ball
\* reference, removes the scored ball, adds exactly one new uncarried ball with
\* a fresh id, and changes no other ball and no other player.
C7_ScoringStep ==
    \A rs \in [Carriers -> Respawns] : \A i \in PlayerIdx :
        LET mid == MoveFollow(MoveLoop(Cur, 1, i - 1, rs), i)
            post == ScoreGoal(mid, i, PosOf(rs, i))
            p == mid.players[i]
            fresh == Ids(post.balls) \ Ids(mid.balls)
        IN  (p.carryingBallId # NULL /\ InOwnGoalZone(p.team, p.x, p.y)) =>
              /\ post.players[i].carryingBallId = NULL
              /\ post.players[i].score = p.score + 1
              /\ p.carryingBallId \notin Ids(post.balls)
              /\ Len(post.balls) = Len(mid.balls)
              /\ Cardinality(fresh) = 1
              /\ \A n \in fresh :
                    /\ n > mid.uuid
                    /\ n \notin Ids(mid.players)
                    /\ post.balls[IndexOf(post.balls, n)].carriedBy = NULL
              /\ \A k \in 1..Len(mid.balls) :
                    mid.balls[k].id # p.carryingBallId =>
                        \E h \in 1..Len(post.balls) : post.balls[h] = mid.balls[k]
              /\ \A j \in 1..Len(mid.players) :
                    j # i => post.players[j] = mid.players[j]

\* C7 witness: a player scored in the last tick (its point and the replacement
\* ball are in the state) while another player carries a ball
C7_Witness ==
    /\ \E i \in PlayerIdx : players[i].score >= 1
    /\ \E j \in PlayerIdx : players[j].score = 0 /\ players[j].carryingBallId # NULL
    /\ \E k \in BallIdx : balls[k].id > BALL_COUNT + Len(TEAMS)

\* Squared distance strictly below (PLAYER_RADIUS + BALL_RADIUS)^2
Near(p, b) ==
    /\ ~IsNaN(p.x) /\ ~IsNaN(p.y) /\ ~IsNaN(b.x) /\ ~IsNaN(b.y)
    /\ (p.x - b.x) * (p.x - b.x) + (p.y - b.y) * (p.y - b.y)
          < (PLAYER_RADIUS + BALL_RADIUS) * (PLAYER_RADIUS + BALL_RADIUS) * SCALE * SCALE

\* Squared distance exactly (PLAYER_RADIUS + BALL_RADIUS)^2
AtRange(p, b) ==
    /\ ~IsNaN(p.x) /\ ~IsNaN(p.y) /\ ~IsNaN(b.x) /\ ~IsNaN(b.y)
    /\ (p.x - b.x) * (p.x - b.x) + (p.y - b.y) * (p.y - b.y)
          = (PLAYER_RADIUS + BALL_RADIUS) * (PLAYER_RADIUS + BALL_RADIUS) * SCALE * SCALE

\* C8 as stated: at the pickup step a non-carrying player picks up an
\* uncarried ball exactly when their squared distance is strictly less than
\* (PLAYER_RADIUS + BALL_RADIUS)^2.
C8_PickupExactlyWhenInRange ==
    \A rs \in [Carriers -> Respawns] :
        LET mid == AfterMove(Cur, rs)
            post == PickupLoop(mid, 1)
        IN  \A i \in 1..Len(mid.players), k \in 1..Len(mid.balls) :
              (mid.players[i].carryingBallId = NULL /\ mid.balls[k].carriedBy = NULL) =>
                 ((post.balls[k].carriedBy = mid.players[i].id)
                     <=> Near(mid.players[i], mid.balls[k]))

\* C8 amended: a ball is picked up by a player only if the player was not
\* carrying, the ball was uncarried and their squared distance is strictly
\* less than (PLAYER_RADIUS + BALL_RADIUS)^2; and whenever an uncarried ball is
\* strictly inside the range of a non-carrying player, after the step that
\* ball has a carrier or that player carries another ball.
C8_PickupOnlyInRange ==
    \A rs \in [Carriers -> Respawns] :
        LET mid == AfterMove(Cur, rs)
            post == PickupLoop(mid, 1)
        IN  \A i \in 1..Len(mid.players), k \in 1..Len(mid.balls) :
              /\ (post.balls[k].carriedBy = mid.players[i].id
                    /\ mid.balls[k].carriedBy # mid.players[i].id) =>
                    /\ mid.players[i].carryingBallId = NULL
                    /\ mid.balls[k].carriedBy = NULL
                    /\ Near(mid.players[i], mid.balls[k])
              /\ (mid.players[i].carryingBallId = NULL /\ mid.balls[k].carriedBy = NULL
                    /\ Near(mid.players[i], mid.balls[k])) =>
                    \/ post.balls[k].carriedBy # NULL
                    \/ post.players[i].carryingBallId # NULL

\* C8 witness: after a tick a player carries a ball it picked up, a second
\* uncarried ball lies strictly inside its range and a third one exactly at
\* the range
C8_Witness ==
    /\ ticks >= 1
    /\ \E i \in PlayerIdx, k, g, h \in BallIdx :
          /\ balls[k].carriedBy = players[i].id
          /\ balls[g].carriedBy = NULL /\ Near(players[i], balls[g])
          /\ balls[h].carriedBy = NULL /\ AtRange(players[i], balls[h])

\* C9: within the pickup step each player acquires at most one ball, a player
\* that already carries a ball acquires none, and no ball is acquired by two
\* players.
C9_AtMostOnePickup ==
    \A rs \in [Carriers -> Respawns] :
        LET mid == AfterMove(Cur, rs)
            post == PickupLoop(mid, 1)
            Got(i) == {k \in 1..Len(mid.balls) :
                          /\ post.balls[k].carriedBy = mid.players[i].id
                          /\ mid.balls[k].carriedBy # mid.players[i].id}
        IN  /\ \A i \in 1..Len(mid.players) :
                 /\ Cardinality(Got(i)) <= 1
                 /\ mid.players[i].carryingBallId # NULL =>
                       /\ Got(i) = {}
                       /\ post.players[i].carryingBallId = mid.players[i].carryingBallId
                 /\ post.players[i].carryingBallId # mid.players[i].carryingBallId =>
                       \E k \in Got(i) : post.players[i].carryingBallId = mid.balls[k].id
            /\ \A i, j \in 1..Len(mid.players) :
                 (i # j /\ post.players[i].carryingBallId # NULL) =>
                     post.players[i].carryingBallId # post.players[j].carryingBallId

\* C9 witness: before a tick, two players that carry nothing are both within
\* range of the same uncarried ball, and one of them of a second such ball
C9_Witness ==
    /\ ticks >= 1 /\ ticks < MaxTicks
    /\ \E i, j \in PlayerIdx, k, g \in BallIdx :
          /\ i # j /\ k # g
          /\ players[i].carryingBallId = NULL /\ players[j].carryingBallId = NULL
          /\ balls[k].carriedBy = NULL /\ balls[g].carriedBy = NULL
          /\ Near(players[i], balls[k]) /\ Near(players[j], balls[k])
          /\ Near(players[i], balls[g])

\* Distance strictly below twice the player radius
Overlapping(p1, p2) ==
    /\ ~IsNaN(p1.x) /\ ~IsNaN(p1.y) /\ ~IsNaN(p2.x) /\ ~IsNaN(p2.y)
    /\ (p1.x - p2.x) * (p1.x - p2.x) + (p1.y - p2.y) * (p1.y - p2.y)
          < 4 * PLAYER_RADIUS * PLAYER_RADIUS * SCALE * SCALE

\* Neither player i nor player j carries a ball in post, and the balls they
\* carried in mid have no carrier in post
BothDropped(mid, post, i, j) ==
    /\ post.players[i].carryingBallId = NULL
    /\ post.players[j].carryingBallId = NULL
    /\ \A k \in 1..Len(post.balls) :
          post.balls[k].id \in {mid.players[i].carryingBallId, mid.players[j].carryingBallId}
             => post.balls[k].carriedBy = NULL

\* C10 as stated: every pair of players whose distance is below twice the
\* player radius when the collision step starts has dropped its balls after
\* the tick.
C10_OverlappingPairsDrop ==
    \A rs \in [Carriers -> Respawns] :
        LET mid == AfterPickup(Cur, rs)
            post == AfterCollide(Cur, rs)
        IN  \A i, j \in 1..Len(mid.players) :
              (i < j /\ Overlapping(mid.players[i], mid.players[j]))
                 => BothDropped(mid, post, i, j)

\* C10 amended: every pair of players whose distance is below twice the player
\* radius when the collision step examines the pair (after the separations of
\* the pairs examined before it) has dropped its balls after the tick.
C10_ExaminedPairsDrop ==
    \A rs \in [Carriers -> Respawns] :
        LET mid == AfterPickup(Cur, rs)
            post == AfterCollide(Cur, rs)
        IN  \A i, j \in 1..Len(mid.players) :
              i < j =>
                LET at == CollideLoop(mid, 1, 2, i, j)
                IN  Overlapping(at.players[i], at.players[j])
                       => BothDropped(mid, post, i, j)

\* C10 witness: a tick is about to run whose collision step starts with two
\* overlapping players of which one carries a ball
C10_Witness ==
    /\ ticks < MaxTicksCrowd
    /\ \E rs \in [Carriers -> Respawns] :
          LET mid == AfterPickup(Cur, rs)
          IN  \E i, j \in 1..Len(mid.players) :
                /\ i # j
                /\ Overlapping(mid.players[i], mid.players[j])
                /\ mid.players[i].carryingBallId # NULL

\* Distance exactly twice the player radius, up to the last digit kept
AtContact(p1, p2) ==
    LET d2 == (p1.x - p2.x) * (p1.x - p2.x) + (p1.y - p2.y) * (p1.y - p2.y)
    IN  /\ (2 * PLAYER_RADIUS * SCALE - 1) * (2 * PLAYER_RADIUS * SCALE - 1) <= d2
        /\ d2 <= (2 * PLAYER_RADIUS * SCALE + 1) * (2 * PLAYER_RADIUS * SCALE + 1)

\* Players i and j are the only pair that overlaps in st
OnlyOverlap(st, i, j) ==
    \A a, b \in 1..Len(st.players) :
        (a < b /\ Overlapping(st.players[a], st.players[b])) <=> (a = i /\ b = j)

\* C11: when exactly two players overlap at the collision step, at a distance
\* d with 0 < d < 2 * PLAYER_RADIUS, their distance after the step is
\* 2 * PLAYER_RADIUS.
C11_SeparatedToContact ==
    \A rs \in [Carriers -> Respawns] :
        LET mid == AfterPickup(Cur, rs)
            post == AfterCollide(Cur, rs)
        IN  \A i, j \in 1..Len(mid.players) :
              (/\ i < j
               /\ OnlyOverlap(mid, i, j)
               /\ <<mid.players[i].x, mid.players[i].y>> # <<mid.players[j].x, mid.players[j].y>>)
                 => AtContact(post.players[i], post.players[j])

\* C12: when two players are at exactly the same position when the collision
\* step examines them, the step separates them: afterwards their positions
\* differ and they no longer overlap.
C12_CoincidentPlayersSeparated ==
    \A rs \in [Carriers -> Respawns] :
        LET mid == AfterPickup(Cur, rs)
        IN  \A i, j \in 1..Len(mid.players) :
              i < j =>
                LET at == CollideLoop(mid, 1, 2, i, j)
                    after == CollidePair(at, i, j)
                    p1 == at.players[i]
                    p2 == at.players[j]
                    q1 == after.players[i]
                    q2 == after.players[j]
                IN  (~IsNaN(p1.x) /\ ~IsNaN(p1.y) /\ p1.x = p2.x /\ p1.y = p2.y) =>
                       /\ <<q1.x, q1.y>> # <<q2.x, q2.y>>
                       /\ ~Overlapping(q1, q2)

\* A number limited to [-1, 1]
Clamped(v) == IF v > 1 * SCALE THEN 1 * SCALE ELSE IF v < -1 * SCALE THEN -1 * SCALE ELSE v

\* C13: handling a numeric input (x, y) stores each component limited to
\* [-1, 1] as the player's direction: a pair in range is stored as it is,
\* (2, -3) is stored as (1, -1).
C13_InputClamped ==
    [][\A id \in Ids(players), a, b \in ClampValues :
          OnMessage(id, Input(Num(a), Num(b))) =>
             LET q == players'[IndexOf(players', id)]
             IN  /\ q.dirX = Clamped(a) /\ q.dirY = Clamped(b)
                 /\ (-1 * SCALE <= a /\ a <= 1 * SCALE) => q.dirX = a
                 /\ (-1 * SCALE <= b /\ b <= 1 * SCALE) => q.dirY = b
                 /\ (a = 2 * SCALE /\ b = -3 * SCALE) =>
                       (q.dirX = 1 * SCALE /\ q.dirY = -1 * SCALE)]_vars

\* C13 witness: the stored direction is (1, -1), which the inputs (1, -1) and
\* (2, -3) both give, and a tick has moved the player along it
C13_Witness ==
    \E k \in PlayerIdx :
        /\ players[k].dirX = 1 * SCALE /\ players[k].dirY = -1 * SCALE
        /\ players[k].x > createPlayer(players[k].id, players[k].team).x
        /\ players[k].y < 0

\* C14: processing a message from a session changes at most dirX and dirY of
\* that session's own player; its position, score, team and carried ball,
\* every other player, every ball and the team counter stay as they were.
C14_MessageChangesOnlyDirection ==
    [][\A id \in Ids(players), m \in InputMessages :
          OnMessage(id, m) =>
             /\ Len(players') = Len(players)
             /\ \A k \in PlayerIdx :
                   IF players[k].id = id
                   THEN players' [k] = [players[k] EXCEPT !.dirX = players'[k].dirX,
                                                         !.dirY = players'[k].dirY]
                   ELSE players'[k] = players[k]
             /\ UNCHANGED <<balls, nextTeamIndex, uuidCount, snapshot, ticks, sockets>>]_vars

\* C14 witness: two players are connected, one carries a ball and has a
\* direction stored by a message, the other has none
C14_Witness ==
    \E i, j \in PlayerIdx :
        /\ i # j
        /\ players[i].carryingBallId # NULL
        /\ players[i].dirX # 0
        /\ players[j].dirX = 0 /\ players[j].dirY = 0

\* The sessions whose close event has not been processed
LiveSessions(socks) ==
    {socks[k].id : k \in {h \in 1..Len(socks) : socks[h].readyState # "CLOSED"}}

\* C15: a player record exists exactly for the sessions that have connected
\* and whose close event has not been processed, one record per session, and
\* a snapshot lists no player whose close event was processed before it.
C15_PlayersAreLiveSessions ==
    [][/\ Ids(players') = LiveSessions(sockets')
       /\ Cardinality(Ids(players')) = Len(players')
       /\ ticks' = ticks + 1 =>
             \A k \in 1..Len(snapshot'.players) :
                 snapshot'.players[k].id \in LiveSessions(sockets)]_vars

\* C15 witness: a session that was listed in a snapshot has been closed, and
\* the snapshot of a later tick lists another player but not that one
C15_Witness ==
    \E k \in 1..Len(sockets) :
        LET s == sockets[k]
            last == s.sent[Len(s.sent)]
        IN  /\ s.readyState = "CLOSED"
            /\ last.type = "state"
            /\ \E h \in 1..Len(last.players) : last.players[h].id = s.id
            /\ snapshot # last
            /\ Len(snapshot.players) >= 1
            /\ \A h \in 1..Len(snapshot.players) : snapshot.players[h].id # s.id

\* C16: processing a disconnect removes only the disconnecting player's
\* record: every other player's record, every ball and the team counter are
\* unchanged and nothing is sent; and a tick that follows a disconnect still
\* sends its snapshot to every remaining open session.
C16_CloseRemovesOnlyItsPlayer ==
    [][/\ \A id \in Ids(players) :
             OnClose(id) =>
                /\ players' = SelectSeq(players, LAMBDA p : p.id # id)
                /\ Len(players') = Len(players) - 1
                /\ balls' = balls
                /\ nextTeamIndex' = nextTeamIndex
                /\ snapshot' = snapshot
                /\ \A k \in 1..Len(sockets) : sockets'[k].sent = sockets[k].sent
       /\ (ticks' = ticks + 1 /\ Len(sockets) > Len(players)) =>
             \A k \in 1..Len(sockets) :
                 (sockets[k].id \in Ids(players) /\ sockets[k].readyState = "OPEN") =>
                     sockets'[k].sent[Len(sockets'[k].sent)] = snapshot']_vars

\* C16 witness: a player has disconnected while another player, which has
\* moved and carries a ball, is still connected, and a tick has run since
C16_Witness ==
    /\ \E k \in 1..Len(sockets) : sockets[k].readyState = "CLOSED"
    /\ \E i \in PlayerIdx :
          /\ players[i].carryingBallId # NULL
          /\ players[i].x # createPlayer(players[i].id, players[i].team).x
          /\ sockets[IndexOf(sockets, players[i].id)].sent
                [Len(sockets[IndexOf(sockets, players[i].id)].sent)] = snapshot
          /\ \A h \in 1..Len(snapshot.players) : snapshot.players[h].id \in Ids(players)

\* The team of the k-th accepted connection, k counted from 0
TeamOfConnection(k) == IF k % 2 = 0 THEN "left" ELSE "right"

\* C17: the k-th accepted connection (k counted from 0 over the server's
\* lifetime) gets team 'left' if k is even and 'right' if k is odd, whatever
\* the disconnects and the population of the teams, and a player keeps the
\* team it was given.  sockets lists the connections in the order accepted.
C17_TeamsAlternate ==
    /\ nextTeamIndex = Len(sockets)
    /\ \A k \in 1..Len(sockets) :
          /\ sockets[k].sent[1].team = TeamOfConnection(k - 1)
          /\ \A i \in PlayerIdx :
                players[i].id = sockets[k].id => players[i].team = TeamOfConnection(k - 1)

\* C17 witness: the second connection (right) has closed and a tick has run;
\* the third connection got 'left' although no player was on the right team
C17_Witness ==
    /\ ticks >= 1
    /\ Len(sockets) >= 3
    /\ sockets[2].readyState = "CLOSED"
    /\ Len(players) = 2
    /\ \A i \in PlayerIdx : players[i].team = "left"
    /\ \E i \in PlayerIdx : players[i].id = sockets[3].id

\* C18: each session receives exactly one init message, carrying the id and
\* the team of its own player; it is the first message the session receives,
\* every later one is a state snapshot, and no other session receives it.
C18_OneInitFirst ==
    \A k \in 1..Len(sockets) :
        LET s == sockets[k]
        IN  /\ Len(s.sent) >= 1
            /\ s.sent[1].type = "init"
            /\ s.sent[1].id = s.id
            /\ \A i \in PlayerIdx : players[i].id = s.id => players[i].team = s.sent[1].team
            /\ \A h \in 2..Len(s.sent) : s.sent[h].type = "state"

\* C18 witness: two sessions of different teams have each received their init
\* message and then at least one snapshot; one joined after the other's first
\* snapshot
C18_Witness ==
    \E i, j \in 1..Len(sockets) :
        /\ i < j
        /\ sockets[i].sent[1].team # sockets[j].sent[1].team
        /\ Len(sockets[j].sent) >= 2
        /\ Len(sockets[i].sent) > Len(sockets[j].sent)
        /\ sockets[i].readyState = "OPEN" /\ sockets[j].readyState = "OPEN"

\* The types of the messages of a log
Types(sent) == [k \in 1..Len(sent) |-> sent[k].type]

\* C19: every tick ends with exactly one state snapshot sent to every
\* registered session whose socket is OPEN and nothing sent to any other
\* session; a session that is not OPEN is skipped and stays registered.
C19_OneSnapshotPerOpenSession ==
    [][ticks' = ticks + 1 =>
          /\ Ids(players') = Ids(players)
          /\ \A k \in 1..Len(sockets) :
                /\ sockets'[k].readyState = sockets[k].readyState
                /\ IF sockets[k].id \in Ids(players) /\ sockets[k].readyState = "OPEN"
                   THEN /\ Len(sockets'[k].sent) = Len(sockets[k].sent) + 1
                        /\ Types(sockets'[k].sent) = Append(Types(sockets[k].sent), "state")
                        /\ sockets'[k].sent[Len(sockets'[k].sent)] = snapshot'
                   ELSE Types(sockets'[k].sent) = Types(sockets[k].sent)]_vars

\* C19 witness: a registered session whose socket is CLOSING has received
\* fewer messages than an open session that joined after it
C19_Witness ==
    \E i, j \in 1..Len(sockets) :
        /\ i < j
        /\ sockets[i].readyState = "CLOSING" /\ sockets[i].id \in Ids(players)
        /\ sockets[j].readyState = "OPEN" /\ sockets[j].id \in Ids(players)
        /\ Len(sockets[i].sent) < Len(sockets[j].sent)

\* C20: the snapshot of a tick has one entry per live player, with the id,
\* team, x, y and score the player has after the tick, and one entry per live
\* ball, with the id, x, y and carriedBy the ball has after the tick; every
\* session that is sent a message in the tick is sent that snapshot.
C20_SnapshotIsFullCopy ==
    [][ticks' = ticks + 1 =>
          /\ Len(snapshot'.players) = Len(players')
          /\ \A k \in 1..Len(players') :
                LET e == snapshot'.players[k]
                    p == players'[k]
                IN  /\ e.id = p.id /\ e.team = p.team /\ e.score = p.score
                    /\ e.x = p.x /\ e.y = p.y
          /\ Len(snapshot'.balls) = Len(balls')
          /\ \A k \in 1..Len(balls') :
                LET e == snapshot'.balls[k]
                    ball == balls'[k]
                IN  /\ e.id = ball.id /\ e.carriedBy = ball.carriedBy
                    /\ e.x = ball.x /\ e.y = ball.y
          /\ \A k \in 1..Len(sockets) :
                sockets'[k].sent # sockets[k].sent =>
                    sockets'[k].sent[Len(sockets'[k].sent)] = snapshot']_vars

\* min(W/2 - r, -W/2 + 40 + n * PLAYER_SPEED)
RunX(n) ==
    LET free == -(WORLD_WIDTH * SCALE) \div 2 + 40 * SCALE + n * PLAYER_SPEED * SCALE
    IN  IF free < MaxX THEN free ELSE MaxX

\* C22: a 'left' player is spawned at (-W/2 + 40, 0), and every tick that
\* finds it with direction (1, 0) at x = min(W/2 - r, -W/2 + 40 + N * PLAYER_SPEED),
\* y = 0 and no other player within collision distance leaves it at
\* x = min(W/2 - r, -W/2 + 40 + (N + 1) * PLAYER_SPEED), y = 0: by induction
\* the position after N such ticks is the claim's, for every N.
C22_RunRight ==
    [][/\ \A k \in 1..Len(players') :
             (k > Len(players) /\ players'[k].team = "left") =>
                 (players'[k].x = RunX(0) /\ players'[k].y = 0)
       /\ ticks' = ticks + 1 =>
             \A k \in PlayerIdx : \A n \in 0..MaxTicksRun :
                 (/\ players[k].team = "left"
                  /\ players[k].dirX = 1 * SCALE /\ players[k].dirY = 0
                  /\ players[k].x = RunX(n) /\ players[k].y = 0
                  /\ \A j \in PlayerIdx : j = k \/ ~Overlapping(MovePlayer(players[j]), MovePlayer(players[k])))
                    => (players'[k].x = RunX(n + 1) /\ players'[k].y = 0)]_vars

\* C22 witness: the player has reached x = W/2 - r, steering right for more
\* ticks than the free run to the edge takes
C22_Witness ==
    \E k \in PlayerIdx :
        /\ players[k].team = "left"
        /\ players[k].dirX = 1 * SCALE
        /\ players[k].x = MaxX /\ players[k].y = 0
        /\ RunX(ticks - 1) = MaxX

\* C23: two runs that have received the same events and ticks so far produce
\* the same snapshot in the next tick: the snapshot of a tick does not depend
\* on what randInField() returns in it.
C23_SameEventsSameSnapshots ==
    \A rs1, rs2 \in [Carriers -> Respawns] :
        Payload(AfterCollide(Cur, rs1)) = Payload(AfterCollide(Cur, rs2))

\* C24: in every reachable state every ball's coordinates lie within
\* [-W/2, W/2] x [-H/2, H/2].
C24_BallsInField ==
    \A k \in BallIdx :
        /\ ~IsNaN(balls[k].x) /\ ~IsNaN(balls[k].y)
        /\ -(WORLD_WIDTH * SCALE) <= 2 * balls[k].x /\ 2 * balls[k].x <= WORLD_WIDTH * SCALE
        /\ -(WORLD_HEIGHT * SCALE) <= 2 * balls[k].y /\ 2 * balls[k].y <= WORLD_HEIGHT * SCALE

\* The entry of the player with the given id in a snapshot (0 when absent)
SnapPlayer(snap, id) == IndexOf(snap.players, id)

\* C25 as stated: in every broadcast snapshot, every ball whose carriedBy
\* names a player of the snapshot has the same (x, y) as that player.
C25_CarriedBallAtCarrier ==
    \A k \in 1..Len(snapshot.balls) :
        LET b == snapshot.balls[k]
            i == SnapPlayer(snapshot, b.carriedBy)
        IN  (b.carriedBy # NULL /\ i # 0) =>
               (b.x = snapshot.players[i].x /\ b.y = snapshot.players[i].y)

\* C25 amended: in the snapshot of a tick, every ball carried by a player of
\* the snapshot that already carried it before the tick has the same (x, y)
\* as that player; a ball picked up in the tick is listed where it lay when
\* it was picked up: at the position it had before the tick, or at its
\* spawn position when it replaced a ball scored in the tick.
C25_CarriedBallFollowsFromNextTick ==
    [][ticks' = ticks + 1 =>
          \A k \in 1..Len(snapshot'.balls) :
              LET b == snapshot'.balls[k]
                  i == SnapPlayer(snapshot', b.carriedBy)
                  h == IndexOf(balls, b.id)
              IN  (b.carriedBy # NULL /\ i # 0) =>
                     IF h # 0 /\ balls[h].carriedBy = b.carriedBy
                     THEN b.x = snapshot'.players[i].x /\ b.y = snapshot'.players[i].y
                     ELSE IF h # 0
                          THEN /\ balls[h].carriedBy = NULL
                               /\ b.x = JsonNumber(balls[h].x)
                               /\ b.y = JsonNumber(balls[h].y)
                          ELSE <<b.x, b.y>> \in Respawns]_vars

\* C25 witness: the last snapshot lists a ball carried since an earlier tick
\* at its carrier's position, away from the spawn point in x and in y, and
\* the carrier has scored before
C25_Witness ==
    \E k \in 1..Len(snapshot.balls) :
        LET b == snapshot.balls[k]
            i == SnapPlayer(snapshot, b.carriedBy)
        IN  /\ b.carriedBy # NULL /\ i # 0
            /\ b.x = snapshot.players[i].x /\ b.y = snapshot.players[i].y
            /\ b.x # createPlayer(0, snapshot.players[i].team).x
            /\ b.y # 0
            /\ snapshot.players[i].score >= 1

\* C26: in every state and in every snapshot, each ball's carriedBy is null
\* or the id of a live player, a player listed in the same snapshot.
C26_CarrierIsLive ==
    /\ \A k \in BallIdx :
           balls[k].carriedBy = NULL \/ balls[k].carriedBy \in Ids(players)
    /\ \A k \in 1..Len(snapshot.balls) :
           \/ snapshot.balls[k].carriedBy = NULL
           \/ SnapPlayer(snapshot, snapshot.balls[k].carriedBy) # 0

\* The phase order of the tick as specified: movement for all players, then
\* follow for all, then scoring for all
RECURSIVE MoveAll(_, _)
MoveAll(st, i) ==
    IF i > Len(st.players) THEN st
    ELSE MoveAll([st EXCEPT !.players[i] = MovePlayer(st.players[i])], i + 1)

RECURSIVE FollowAll(_, _)
FollowAll(st, i) ==
    IF i > Len(st.players) THEN st
    ELSE FollowAll(FollowBall(st, i), i + 1)

RECURSIVE ScoreAll(_, _, _)
ScoreAll(st, i, rs) ==
    IF i > Len(st.players) THEN st
    ELSE ScoreAll(ScoreGoal(st, i, IF i \in DOMAIN rs THEN rs[i] ELSE <<0, 0>>),
                  i + 1, rs)

\* The whole tick in the specified phase order
Phased(st, rs) ==
    CollideLoop(PickupLoop(ScoreAll(FollowAll(MoveAll(st, 1), 1), 1, rs), 1), 1, 2, 0, 0)

\* C27: for every pre-tick state and every choice of replacement-ball
\* positions, the fused loop of update() followed by pickup and collision
\* gives the same post-tick state as the specified phase order.
C27_FusedEqualsPhased ==
    \A rs \in [Carriers -> Respawns] : AfterCollide(Cur, rs) = Phased(Cur, rs)

\* C27 witness: two players with a direction, both carrying; in the tick
\* that starts here one of them scores and the other moves with its ball
C27_Witness ==
    /\ Len(players) >= 2
    /\ \A i \in PlayerIdx : players[i].dirX # 0 /\ players[i].carryingBallId # NULL
    /\ \E i, j \in PlayerIdx :
          /\ i < j
          /\ ~Scores(players[i]) /\ Scores(MovePlayer(players[i]))
          /\ ~Scores(MovePlayer(players[j])) /\ MovePlayer(players[j]) # players[j]

\* A direction component a valid input can leave in a player: a number
\* within [-1, 1]
ValidDir(d) == ~IsNaN(d) /\ -1 * SCALE <= d /\ d <= 1 * SCALE

\* C28: the direction a tick's movement uses for a player is the one of the
\* last valid input processed for it (zero if none): a stored direction
\* changes only in a message step and then to the clamped value of a valid
\* input, and a tick moves the player by its stored direction and keeps it.
C28_LastValidInputDrives ==
    [][\A id \in Ids(players) \cap Ids(players') :
          LET p == players[IndexOf(players, id)]
              q == players'[IndexOf(players', id)]
          IN  /\ ValidDir(p.dirX) /\ ValidDir(p.dirY)
              /\ (q.dirX # p.dirX \/ q.dirY # p.dirY) =>
                    /\ ticks' = ticks
                    /\ ValidDir(q.dirX) /\ ValidDir(q.dirY)
              /\ (ticks' = ticks + 1 /\ Len(players) = 1) =>
                    /\ q.x = MovePlayer(p).x
                    /\ q.y = MovePlayer(p).y]_vars

OfTeam(team) == {k \in PlayerIdx : players[k].team = team}

\* The stored direction of p points horizontally towards its team's edge
TowardsOwnEdge(p) ==
    /\ p.dirY = 0
    /\ IF p.team = "left" THEN p.dirX = -1 * SCALE ELSE p.dirX = 1 * SCALE

\* The number of ticks after which p, moving towards its own edge, has
\* been in its goal zone at a scoring step
TicksToGoal(p) ==
    LET edge == (WORLD_WIDTH * SCALE) \div 2 - GOAL_DEPTH * SCALE
        d == IF p.team = "left" THEN p.x + edge ELSE edge - p.x
    IN  IF d < 0 THEN 1 ELSE d \div (PLAYER_SPEED * SCALE) + 1

\* The player of the team carries a ball, heads for its own edge within the
\* goal's height, has the score n, and the run has the ticks left it needs
Heading(team, n) ==
    \E k \in OfTeam(team) :
        /\ players[k].carryingBallId # NULL
        /\ TowardsOwnEdge(players[k])
        /\ 2 * players[k].y < GOAL_WIDTH * SCALE /\ -2 * players[k].y < GOAL_WIDTH * SCALE
        /\ players[k].score = n
        /\ ticks + TicksToGoal(players[k]) <= MaxTicksFair

\* C30: under fair ticking, a player that carries a ball and heads
\* horizontally for its own team's edge with |y| < GOAL_WIDTH / 2 eventually
\* has a higher score, unless it disconnects or its direction is changed
\* (in these runs no other player comes within collision distance).
C30_CarrierHeadingHomeScores ==
    \A team \in {TEAMS[t] : t \in 1..Len(TEAMS)}, n \in 0..MaxTicksFair :
        Heading(team, n) ~>
            \/ \E k \in OfTeam(team) : players[k].score > n
            \/ OfTeam(team) = {}
            \/ \E k \in OfTeam(team) : ~TowardsOwnEdge(players[k])

\* C30 witness: a connected player that heads for its own edge has scored
\* twice and carries a ball again
C30_Witness ==
    \E k \in PlayerIdx :
        /\ players[k].score >= 2
        /\ TowardsOwnEdge(players[k])
        /\ players[k].carryingBallId # NULL

\* What the handlers write besides positions and carries: the set of
\* players, their directions, the team rotation, the sockets' states
HandlerFootprint ==
    <<nextTeamIndex, Ids(players),
      [k \in PlayerIdx |-> <<players[k].dirX, players[k].dirY>>],
      [k \in 1..Len(sockets) |-> <<sockets[k].id, sockets[k].readyState>>]>>

\* The position of update() that follows ph
NextPhase(ph) ==
    CASE ph = "idle" -> "moved"
      [] ph = "moved" -> "picked"
      [] ph = "picked" -> "collided"
      [] ph = "collided" -> "idle"

\* C21: ticks are atomic with respect to I/O events: while update() is
\* between its steps the only step taken is its next step, which leaves
\* what the connect, input and close handlers write as it was; update()
\* starts only when no update() is running, and a handler runs only then.
C21_TickAtomic ==
    [][/\ phase # "idle" =>
             /\ phase' = NextPhase(phase)
             /\ HandlerFootprint' = HandlerFootprint
       /\ phase' = "moved" => phase = "idle"
       /\ HandlerFootprint' # HandlerFootprint => (phase = "idle" /\ phase' = "idle")
       /\ ticks' # ticks => (phase = "collided" /\ phase' = "idle")]_vars

\* C21 witness: update() stands between its collision scan and its
\* broadcast in a second tick, with two players connected, one of them
\* carrying a ball and steering
C21_Witness ==
    /\ phase = "collided"
    /\ ticks >= 1
    /\ Len(players) >= 2
    /\ \E k \in PlayerIdx : players[k].carryingBallId # NULL /\ players[k].dirX # 0

====
